---- MODULE Spec2Model ----
(***************************************************************************)
(* Model of src/main.rs: the contract-method runner (startup, method loop, *)
(* view call, transaction submission with retry) together with the remote  *)
(* node it talks to (account nonce, acceptance of submitted transactions). *)
(***************************************************************************)
EXTENDS Integers, Sequences, FiniteSets, TLC

(* ------------------------------ bounds -------------------------------- *)
\* longest method list of an interface file
MaxMethods == 2
\* how many times other actors advance the account nonce during a run
MaxOther == 2

(* ------------------------- program constants -------------------------- *)
MaxAttempts == 3
BackoffSecs == 2
MethodDelaySecs == 2
DefaultMax == 100
MicroPerOct == 1000000

(* ------------------------------ values -------------------------------- *)
\* Option<T>
None == [some |-> FALSE, v |-> ""]
Some(x) == [some |-> TRUE, v |-> x]
UnwrapOr(o, d) == IF o.some THEN o.v ELSE d

\* Result<T>
Ok(x) == [ok |-> TRUE, val |-> x, err |-> ""]
Err(e) == [ok |-> FALSE, val |-> "", err |-> e]

\* serde_json::Value, by JSON type and textual form; an absent key indexes to Null
\* (t: JSON type, v: textual form, n: the number when t is "number")
JAbsent == [t |-> "absent", v |-> "null", n |-> 0]
JNull == [t |-> "null", v |-> "null", n |-> 0]
JStr(s) == [t |-> "string", v |-> s, n |-> 0]
JNum(k) == [t |-> "number", v |-> ToString(k), n |-> k]
JBool(b) == [t |-> "bool", v |-> IF b THEN "true" ELSE "false", n |-> 0]

\* Value::as_str: Some only for a JSON string
as_str(j) == IF j.t = "string" THEN Some(j.v) ELSE None

\* Value == &str
JsonEqStr(j, s) == j.t = "string" /\ j.v = s

(* ------------------------------ inputs -------------------------------- *)
TheWallet == [priv_ |-> "c2VlZA", addr |-> "octA", rpc |-> "http://node"]
TheContract == "octC"

ParamExample == [name |-> "p", param_type |-> "string", example |-> Some("7"), max |-> None]
ParamMax(n) == [name |-> "p", param_type |-> "number", example |-> None, max |-> Some(n)]
ParamPlain == [name |-> "p", param_type |-> "number", example |-> None, max |-> None]

MethodOf(n, k, ps) == [name |-> n, label |-> n, params |-> ps, method_type |-> k]

MethodPool ==
    { MethodOf("peek", "view", <<ParamMax(2)>>),
      MethodOf("inc", "call", <<ParamExample>>),
      MethodOf("evt", "event", <<ParamPlain>>),
      MethodOf("zero", "call", <<ParamMax(0)>>) }

RECURSIVE SeqsUpTo(_, _)
SeqsUpTo(S, n) ==
    IF n = 0 THEN {<<>>}
    ELSE LET shorter == SeqsUpTo(S, n - 1)
         IN shorter \cup {Append(s, x) : s \in {t \in shorter : Len(t) = n - 1}, x \in S}

Interfaces == SeqsUpTo(MethodPool, MaxMethods)

(* ------------------------------ state --------------------------------- *)
VARIABLES
    pc,          \* position of main
    methods,     \* interface.methods as loaded from exec_interface.json
    i,           \* index of the method the loop is at (1-based)
    params,      \* generate_params result for the current method
    attempt,     \* loop variable of call_contract_tx
    nonce,       \* nonce bound by try_send_tx from its get_balance
    tx,          \* the field map built by try_send_tx
    signature,   \* sign_tx result of the current attempt
    lastErr,     \* error of the failed attempt / method
    res,         \* the response view_call got for the current method
    shown,       \* the text main prints for the current method: result, hash or error
    inflight,    \* requests sent and not yet answered
    sentHere,    \* requests issued per endpoint, by startup or by the current method
    signedHere,  \* number of sign_tx calls for the current method
    stamps,      \* for each of them: the attempt that signed and the timestamp it took
    served,      \* what the node last answered to a balance request: attempt and nonce
    chainNonce,  \* the account's nonce on the chain
    otherMoves,  \* nonce advances by other actors so far
    rejected,    \* the last submit of this method was rejected for its nonce, in which attempt
    accepted,    \* transactions of the current method accepted by the chain
    outcomes,    \* terminal outcome of every method processed so far: index and kind
    stderr,      \* attempt failure reports of the current method
    logfile,     \* lines appended to ocs01_report.txt: label and kind of line
    delays,      \* inter-method delays elapsed
    backoffs,    \* inter-attempt delays elapsed for the current method
    clock,       \* the wall clock: seconds since the epoch, negative before it
    canon        \* sign_tx taken alone: two field maps and the messages built from them

vars == <<pc, methods, i, params, attempt, nonce, tx, signature, lastErr, res, shown, inflight,
          sentHere, signedHere, stamps, served, chainNonce, otherMoves, rejected,
          accepted, outcomes, stderr, logfile, delays, backoffs, clock, canon>>

\* the locals of call_contract_tx and try_send_tx
callLocals == <<attempt, nonce, tx, signature>>
\* what is counted about the current method
counts == <<sentHere, signedHere, stamps, served, rejected, accepted, stderr, backoffs>>
\* the chain
chain == <<chainNonce, otherMoves>>
\* what main has produced
output == <<res, shown, outcomes, logfile>>

Endpoints == {"balance", "call-view", "call-contract"}
NoReqs == [e \in Endpoints |-> 0]
NoTx == [from |-> "", to_ |-> "", amount |-> "", nonce |-> "", ou |-> "", timestamp |-> ""]
NoServed == [attempt |-> 0, nonce |-> 0]
NoCanon == [a |-> NoTx, b |-> NoTx, msg_a |-> "", msg_b |-> ""]

(* --------------------------- the remote node -------------------------- *)
\* a response as the client sees it: transport outcome, HTTP status, whether the
\* body is JSON at all, and the keys of the JSON object
EmptyBody == [balance_raw |-> JAbsent, nonce |-> JAbsent, status |-> JAbsent,
              result |-> JAbsent, tx_hash |-> JAbsent]
NoResp == [transport |-> "none", status |-> 0, json |-> FALSE, body |-> EmptyBody]
NetFail == [transport |-> "fail", status |-> 0, json |-> FALSE, body |-> EmptyBody]
HttpError == [transport |-> "ok", status |-> 500, json |-> TRUE, body |-> EmptyBody]
NotJson == [transport |-> "ok", status |-> 200, json |-> FALSE, body |-> EmptyBody]
Reply(b) == [transport |-> "ok", status |-> 200, json |-> TRUE, body |-> b]

BalanceValues == {2500000}
BalanceReplies(n) ==
    { NetFail, HttpError, NotJson,
      Reply(EmptyBody),
      Reply([EmptyBody EXCEPT !.balance_raw = JStr("abc"), !.nonce = JNum(n)]) }
    \cup { Reply([EmptyBody EXCEPT !.balance_raw = JStr(ToString(b)), !.nonce = JNum(n)])
             : b \in BalanceValues }

ViewResults == {JAbsent, JNull, JStr("ok"), JStr(""), JNum(42), JBool(TRUE)}
ViewStatuses == {JAbsent, JStr("success"), JStr("error"), JNum(1)}
ViewReplies ==
    { NetFail, HttpError, NotJson }
    \cup { Reply([EmptyBody EXCEPT !.status = st, !.result = r])
             : st \in ViewStatuses, r \in ViewResults }

\* the node accepts a transaction exactly when its nonce is the account's nonce + 1
NodeAccepts(body, current) == body.nonce = current + 1
TxHashOf(body) == "tx" \o ToString(body.nonce)
\* replies to a submit the node has processed (a lost reply is a transport failure)
SubmitRepliesAccepted(body) ==
    { Reply([EmptyBody EXCEPT !.tx_hash = JStr(TxHashOf(body))]), NetFail, NotJson }
SubmitRepliesRejected ==
    { HttpError, Reply(EmptyBody), Reply([EmptyBody EXCEPT !.tx_hash = JStr("")]) }

(* ---------------------------- pure helpers ---------------------------- *)
\* api_call: the Result of one exchange, given the response
\* (T = BalanceResponse needs balance_raw: String and nonce: u64; T = Value takes any JSON)
api_call(method, typed, resp) ==
    IF method \notin {"GET", "POST"} THEN Err("Unsupported HTTP method")
    ELSE IF resp.transport = "fail" THEN Err("network")
    ELSE IF resp.status >= 400 THEN Err("api error")
    ELSE IF ~resp.json THEN Err("decode")
    ELSE IF typed /\ ~(resp.body.balance_raw.t = "string" /\ resp.body.nonce.t = "number")
         THEN Err("decode")
    ELSE Ok(resp.body)

\* str::parse::<f64> on the balance strings of the model
ParseF64(s) ==
    IF \E b \in BalanceValues : ToString(b) = s
    THEN Some(CHOOSE b \in BalanceValues : ToString(b) = s)
    ELSE None

\* get_balance: (balance in OCT as whole and millionths, nonce)
get_balance(resp) ==
    LET r == api_call("GET", TRUE, resp)
    IN  IF ~r.ok THEN r
        ELSE LET raw == ParseF64(r.val.balance_raw.v)
             IN  IF ~raw.some THEN Err("parse")
                 ELSE Ok([whole |-> raw.v \div MicroPerOct,
                          micro |-> raw.v % MicroPerOct,
                          nonce |-> r.val.nonce.n])

\* variant: the ou field is left out of the message
BlobNoOu(t) ==
    "{\"from\":\"" \o t.from \o "\",\"to_\":\"" \o t.to_ \o "\",\"amount\":\"" \o t.amount
    \o "\",\"nonce\":" \o t.nonce \o ",\"timestamp\":" \o t.timestamp \o "}"

\* the message sign_tx signs
Blob(t) ==
    "{\"from\":\"" \o t.from \o "\",\"to_\":\"" \o t.to_ \o "\",\"amount\":\"" \o t.amount
    \o "\",\"nonce\":" \o t.nonce \o ",\"ou\":\"" \o t.ou \o "\",\"timestamp\":" \o t.timestamp
    \o "}"
Ed25519Sign(sk, msg) == "sig[" \o sk \o "](" \o msg \o ")"
Base64(bytes) == "b64(" \o bytes \o ")"
VerifyingKey(sk) == "pub[" \o sk \o "]"
sign_tx(sk, t) == Base64(Ed25519Sign(sk, Blob(t)))

\* variant: a success answer without a string result is an error
view_call_strict(resp) ==
    LET r == api_call("POST", FALSE, resp)
    IN  IF ~r.ok THEN r
        ELSE IF JsonEqStr(r.val.status, "success")
             THEN IF as_str(r.val.result).some
                  THEN Ok(as_str(r.val.result).v)
                  ELSE Err("Error: no result")
             ELSE Err("Error: contract")

\* view_call after its api_call
view_call(resp) ==
    LET r == api_call("POST", FALSE, resp)
    IN  IF ~r.ok THEN r
        ELSE IF JsonEqStr(r.val.status, "success")
             THEN Ok(UnwrapOr(as_str(r.val.result), "null"))
             ELSE Err("Error: contract")

\* the values generate_params may produce for one parameter; {} stands for the
\* panic of gen_range on the empty range 1..=0
ParamChoices(p) ==
    IF p.example.some THEN {p.example.v}
    ELSE IF p.max.some THEN {ToString(k) : k \in 1..p.max.v}
    ELSE {ToString(k) : k \in 1..DefaultMax}

RECURSIVE generate_params(_)
generate_params(ps) ==
    IF ps = <<>> THEN {<<>>}
    ELSE {<<v>> \o rest : v \in ParamChoices(Head(ps)), rest \in generate_params(Tail(ps))}

\* the wall clock when the run starts: set before the epoch, or not
ClockStarts == {-5, 0}

\* try_send_tx, line 145: SystemTime::now().duration_since(UNIX_EPOCH)?
Timestamp(now) ==
    IF now < 0 THEN Err("second time provided was later than self") ELSE Ok(now)

Init ==
    /\ pc = "load_wallet"
    /\ methods \in Interfaces
    /\ i = 1
    /\ params = <<>>
    /\ attempt = 0
    /\ nonce = 0
    /\ tx = NoTx
    /\ signature = ""
    /\ lastErr = ""
    /\ res = NoResp
    /\ shown = ""
    /\ inflight = <<>>
    /\ sentHere = NoReqs
    /\ signedHere = 0
    /\ stamps = <<>>
    /\ served = NoServed
    /\ chainNonce = 0
    /\ otherMoves = 0
    /\ rejected = 0
    /\ accepted = 0
    /\ outcomes = <<>>
    /\ stderr = <<>>
    /\ logfile = <<>>
    /\ delays = 0
    /\ backoffs = 0
    /\ clock \in ClockStarts
    /\ canon = NoCanon

(* --------------------------- bookkeeping ------------------------------ *)
NoBody == [contract |-> "", method |-> "", params |-> <<>>, caller |-> "", nonce |-> 0,
           timestamp |-> 0, signature |-> "", public_key |-> ""]

Request(verb, ep, url, body) ==
    [verb |-> verb, ep |-> ep, url |-> url, body |-> body, m |-> 0, attempt |-> 0,
     handled |-> "no"]

\* client.get(url).send() / client.post(url).json(&data).send(): one request leaves
Send(req, m, k) ==
    /\ inflight' = Append(inflight, [req EXCEPT !.m = m, !.attempt = k])
    /\ sentHere' = [sentHere EXCEPT ![req.ep] = @ + 1]

\* get_balance, lines 82-87: the GET of the balance endpoint
BalanceRequest ==
    Request("GET", "balance", TheWallet.rpc \o "/balance/" \o TheWallet.addr, NoBody)

InLoop == pc = "loop" /\ i <= Len(methods)
AtMatch == pc = "match"
Method == methods[i]

\* what main prints for a method once its match arm is over
Outcome(kind, text) == [m |-> i, kind |-> kind]
\* what writing a line to stdout or stderr may come to: the line is written; the
\* write fails with nothing written; it fails with a part of the line written; it
\* fails with the text of the line written (at the end of the line)
StdIo == {"ok", "fail", "partial", "written"}
\* println! and eprintln! panic when the line cannot be written
StdoutPanic == "failed printing to stdout"
StderrPanic == "failed printing to stderr"
Panic(text) == pc' = "panicked" /\ lastErr' = text
\* what is left of a line whose write failed partway
Fragment == "fragment"

\* main, lines 228, 232, 240, 244, 249: what the println! of an outcome leaves on
\* stdout
Printed(kind, text, out) ==
    CASE out = "fail" ->
           UNCHANGED <<outcomes, shown>>
      [] out = "partial" ->
           outcomes' = Append(outcomes, Outcome(Fragment, text)) /\ shown' = Fragment
      [] out \in {"ok", "written"} ->
           outcomes' = Append(outcomes, Outcome(kind, text)) /\ shown' = text

\* call_contract_tx, line 135: the report of failed attempt k, and what is left of
\* it on stderr when the write failed partway
Report(k) == [attempt |-> k, of |-> MaxAttempts, whole |-> TRUE]
ReportFragment(k) == [attempt |-> k, of |-> MaxAttempts, whole |-> FALSE]

\* call_contract_tx, line 135: what the eprintln! of the report leaves on stderr
Reported(k, out) ==
    CASE out = "fail" -> UNCHANGED stderr
      [] out = "partial" -> stderr' = Append(stderr, ReportFragment(k))
      [] out \in {"ok", "written"} -> stderr' = Append(stderr, Report(k))

\* what opening and writing ocs01_report.txt may come to: the line is written; the
\* open or the write fails with nothing written; the write fails partway
ReportIo == {"ok", "fail", "partial"}

\* log_to_file, lines 196-203: the line is appended and main goes on to the delay
\* of line 251 (every call is the last statement of its match arm); when the report
\* cannot be opened or written, the unwrap of line 201 or 202 panics, and a write
\* that failed partway has left a fragment of the line in the report
log_to_file(kind, text, io) ==
    CASE io = "ok" ->
           logfile' = Append(logfile, [label |-> Method.label, kind |-> kind]) /\ pc' = "sleep"
      [] io = "fail" ->
           UNCHANGED logfile /\ pc' = "panicked"
      [] io = "partial" ->
           logfile' = Append(logfile, [label |-> Method.label, kind |-> Fragment])
           /\ pc' = "panicked"

\* the error the run is left with after log_to_file
AfterLog(io, e) == IF io = "ok" THEN e ELSE "log_to_file"

\* main, lines 228-229, 232-233, 240-241, 244-245: println! of the outcome, then
\* log_to_file; when the println! fails it panics, with none, a part or all of the
\* outcome on stdout, before anything is logged
PrintAndLog(kind, logKind, text, e, out, io) ==
    /\ Printed(kind, text, out)
    /\ IF out = "ok"
       THEN /\ log_to_file(logKind, text, io)
            /\ lastErr' = AfterLog(io, e)
       ELSE /\ Panic(StdoutPanic)
            /\ UNCHANGED logfile

\* the counts start over with every method
StartMethod ==
    /\ signedHere' = 0
    /\ stamps' = <<>>
    /\ served' = NoServed
    /\ rejected' = 0
    /\ accepted' = 0
    /\ stderr' = <<>>
    /\ backoffs' = 0

\* the locals of one loop iteration go out of scope
EndMethod ==
    /\ params' = <<>>
    /\ attempt' = 0
    /\ nonce' = 0
    /\ tx' = NoTx
    /\ signature' = ""
    /\ lastErr' = ""
    /\ res' = NoResp
    /\ shown' = ""
    /\ sentHere' = NoReqs
    /\ StartMethod

(* ------------------------------ startup ------------------------------- *)
\* variant: the balance is requested as soon as the wallet is read
main_load_wallet_eager ==
    /\ pc = "load_wallet"
    /\ \E file \in {"ok", "missing", "malformed"} :
          IF file = "ok"
          THEN pc' = "load_interface" /\ Send(BalanceRequest, 0, 0) /\ UNCHANGED lastErr
          ELSE pc' = "aborted" /\ lastErr' = "wallet.json " \o file
                                /\ UNCHANGED <<inflight, sentHere>>
    /\ UNCHANGED <<methods, i, params, callLocals, signedHere, stamps, served, rejected, accepted,
                   stderr, backoffs, chain, output, delays, clock, canon>>

\* main, line 209: read and parse wallet.json
main_load_wallet ==
    /\ pc = "load_wallet"
    /\ \E file \in {"ok", "missing", "malformed"} :
          IF file = "ok" THEN pc' = "load_interface" /\ UNCHANGED lastErr
          ELSE pc' = "aborted" /\ lastErr' = "wallet.json " \o file
    /\ UNCHANGED <<methods, i, params, callLocals, inflight, counts, chain, output,
                   delays, clock, canon>>

\* main, line 210: read and parse exec_interface.json
main_load_interface ==
    /\ pc = "load_interface"
    /\ \E file \in {"ok", "missing", "malformed"} :
          IF file = "ok" THEN pc' = "decode_key" /\ UNCHANGED lastErr
          ELSE pc' = "aborted" /\ lastErr' = "exec_interface.json " \o file
    /\ UNCHANGED <<methods, i, params, callLocals, inflight, counts, chain, output,
                   delays, clock, canon>>

\* main, lines 212-213: base64-decode the key (?), 32 bytes or the unwrap panics
main_decode_key ==
    /\ pc = "decode_key"
    /\ \E key \in {"ok", "bad_base64", "wrong_length"} :
          CASE key = "ok" -> pc' = "build_client" /\ UNCHANGED lastErr
            [] key = "bad_base64" -> pc' = "aborted" /\ lastErr' = "key " \o key
            [] key = "wrong_length" -> pc' = "panicked" /\ lastErr' = "key " \o key
    /\ UNCHANGED <<methods, i, params, callLocals, inflight, counts, chain, output,
                   delays, clock, canon>>

\* main, lines 214-216: build the HTTP client (?), print the wallet address
main_build_client ==
    /\ pc = "build_client"
    /\ \E built \in BOOLEAN, out \in StdIo :
          IF ~built THEN pc' = "aborted" /\ lastErr' = "client"
          ELSE IF out = "ok" THEN pc' = "balance" /\ UNCHANGED lastErr
          ELSE Panic(StdoutPanic)
    /\ UNCHANGED <<methods, i, params, callLocals, inflight, counts, chain, output,
                   delays, clock, canon>>

\* main, line 218: get_balance sends its GET
main_balance_send ==
    /\ pc = "balance"
    /\ Send(BalanceRequest, 0, 0)
    /\ pc' = "balance_wait"
    /\ UNCHANGED <<methods, i, params, callLocals, lastErr, signedHere, stamps, served, rejected,
                   accepted, stderr, backoffs, chain, output, delays, clock, canon>>

\* variant: a failed initial balance fetch is noted and the method loop is entered
main_balance_recv_lenient ==
    /\ pc = "balance_wait"
    /\ inflight # <<>>
    /\ \E resp \in BalanceReplies(chainNonce), out \in StdIo :
          LET r == get_balance(resp)
          IN  IF ~r.ok THEN pc' = "loop" /\ lastErr' = r.err
              ELSE IF out = "ok" THEN pc' = "loop" /\ UNCHANGED lastErr
              ELSE Panic(StdoutPanic)
    /\ inflight' = Tail(inflight)
    /\ UNCHANGED <<methods, i, params, callLocals, counts, chain, output, delays, clock, canon>>

\* main, lines 218-219: the answer; an Err leaves main through ?, a balance is printed
main_balance_recv ==
    /\ pc = "balance_wait"
    /\ inflight # <<>>
    /\ \E resp \in BalanceReplies(chainNonce), out \in StdIo :
          LET r == get_balance(resp)
          IN  IF ~r.ok THEN pc' = "aborted" /\ lastErr' = r.err
              ELSE IF out = "ok" THEN pc' = "loop" /\ UNCHANGED lastErr
              ELSE Panic(StdoutPanic)
    /\ inflight' = Tail(inflight)
    /\ UNCHANGED <<methods, i, params, callLocals, counts, chain, output, delays, clock, canon>>

(* ---------------------------- method loop ----------------------------- *)
\* main, line 221: the for loop is exhausted; lines 254-255: the last line is printed
main_loop_exit ==
    /\ pc = "loop"
    /\ i > Len(methods)
    /\ \E out \in StdIo :
          IF out = "ok" THEN pc' = "done" /\ UNCHANGED lastErr
          ELSE Panic(StdoutPanic)
    /\ UNCHANGED <<methods, i, params, callLocals, inflight, counts, chain,
                   output, delays, clock, canon>>

\* main, lines 222-223: generate_params panics in gen_range(1..=0), unless the
\* println! of the label has done so before
main_generate_panic ==
    /\ InLoop
    /\ generate_params(Method.params) = {}
    /\ \E out \in StdIo :
          IF out = "ok" THEN Panic("cannot sample empty range") ELSE Panic(StdoutPanic)
    /\ UNCHANGED <<methods, i, params, callLocals, inflight, counts, chain, output,
                   delays, clock, canon>>

\* view_call, lines 108-118: the POST to contract/call-view
ViewRequest(ps) ==
    Request("POST", "call-view", TheWallet.rpc \o "/contract/call-view",
            [NoBody EXCEPT !.contract = TheContract, !.method = Method.name,
                           !.params = ps, !.caller = TheWallet.addr])

\* main, lines 222-223: the label is printed and the arguments are generated
main_generate ==
    /\ InLoop
    /\ generate_params(Method.params) # {}
    /\ \E out \in StdIo :
          IF out = "ok"
          THEN /\ \E ps \in generate_params(Method.params) : params' = ps
               /\ StartMethod
               /\ sentHere' = NoReqs
               /\ pc' = "match"
               /\ UNCHANGED lastErr
          ELSE /\ Panic(StdoutPanic)
               /\ UNCHANGED <<params, counts>>
    /\ UNCHANGED <<methods, i, callLocals, inflight, chain, output, delays, clock, canon>>

\* main, lines 224-226, and view_call, lines 108-118: the "view" arm sends its POST
main_view_send ==
    /\ AtMatch
    /\ Method.method_type = "view"
    /\ Send(ViewRequest(params), i, 0)
    /\ pc' = "view_wait"
    /\ UNCHANGED <<methods, i, params, callLocals, lastErr, signedHere, stamps, served, rejected,
                   accepted, stderr, backoffs, chain, output, delays, clock, canon>>

\* variant: a failed view call is sent again, up to MaxAttempts requests
main_view_recv_retry ==
    /\ pc = "view_wait"
    /\ inflight # <<>>
    /\ \E resp \in ViewReplies, out \in StdIo, io \in ReportIo :
          LET r == view_call(resp)
          IN  /\ res' = resp
              /\ IF r.ok
                 THEN /\ PrintAndLog("result", "result", r.val, lastErr, out, io)
                      /\ inflight' = Tail(inflight)
                      /\ UNCHANGED sentHere
                 ELSE IF sentHere["call-view"] < MaxAttempts
                 THEN /\ inflight' = Append(Tail(inflight), Head(inflight))
                      /\ sentHere' = [sentHere EXCEPT !["call-view"] = @ + 1]
                      /\ pc' = "view_wait"
                      /\ UNCHANGED <<lastErr, shown, outcomes, logfile>>
                 ELSE /\ PrintAndLog("view_error", "error", r.err, r.err, out, io)
                      /\ inflight' = Tail(inflight)
                      /\ UNCHANGED sentHere
    /\ UNCHANGED <<methods, i, params, callLocals, signedHere, stamps, served, rejected, accepted,
                   stderr, backoffs, chain, delays, clock, canon>>

\* view_call, lines 118-124, and main, lines 227-234: the answer is printed and logged
main_view_recv ==
    /\ pc = "view_wait"
    /\ inflight # <<>>
    /\ \E resp \in ViewReplies, out \in StdIo, io \in ReportIo :
          LET r == view_call(resp)
          IN  /\ res' = resp
              /\ IF r.ok
                 THEN PrintAndLog("result", "result", r.val, lastErr, out, io)
                 ELSE PrintAndLog("view_error", "error", r.err, r.err, out, io)
    /\ inflight' = Tail(inflight)
    /\ UNCHANGED <<methods, i, params, callLocals, counts, chain, delays, clock, canon>>

\* variant: the unknown arm goes on to the next method without the delay
main_unknown_nodelay ==
    /\ AtMatch
    /\ Method.method_type \notin {"view", "call"}
    /\ \E out \in StdIo :
          /\ Printed("unknown", "Unknown method type", out)
          /\ IF out = "ok"
             THEN /\ i' = i + 1
                  /\ pc' = "loop"
                  /\ UNCHANGED lastErr
             ELSE /\ Panic(StdoutPanic)
                  /\ UNCHANGED i
    /\ UNCHANGED <<methods, params, callLocals, res, inflight, counts,
                   chain, logfile, delays, clock, canon>>

\* variant: an unknown kind is an error that ends main
main_unknown_fatal ==
    /\ AtMatch
    /\ Method.method_type \notin {"view", "call"}
    /\ lastErr' = "Unknown method type"
    /\ pc' = "aborted"
    /\ UNCHANGED <<methods, i, params, callLocals, inflight, counts, chain, output,
                   delays, clock, canon>>

\* main, lines 224 and 249: any other kind is printed as unknown; println! panics
\* when the line cannot be written, with none, a part or all of it on stdout
main_unknown ==
    /\ AtMatch
    /\ Method.method_type \notin {"view", "call"}
    /\ \E out \in StdIo :
          /\ Printed("unknown", "Unknown method type", out)
          /\ IF out = "ok"
             THEN pc' = "sleep" /\ UNCHANGED lastErr
             ELSE Panic(StdoutPanic)
    /\ UNCHANGED <<methods, i, params, callLocals, res, inflight, counts, chain,
                   logfile, delays, clock, canon>>

\* main, line 251: the delay after every method, then the next iteration
main_sleep ==
    /\ pc = "sleep"
    /\ clock' = clock + MethodDelaySecs
    /\ delays' = delays + 1
    /\ i' = i + 1
    /\ pc' = "loop"
    /\ EndMethod
    /\ UNCHANGED <<methods, inflight, chain, outcomes, logfile, canon>>

(* ------------------- call_contract_tx / try_send_tx ------------------- *)
\* variant: one attempt too many
MoreAttemptsOff(k) == k <= MaxAttempts

\* call_contract_tx, line 131: for attempt in 1..=3
MoreAttempts(k) == k < MaxAttempts

\* variant: the nonce of the previous attempt is kept
ObservedNonceStale(r, old) == old

\* try_send_tx, line 144: the nonce bound from this attempt's get_balance
ObservedNonce(r, old) == r.val.nonce

\* variant: the observed nonce is sent as it is
NextNonceSame(n) == n

\* try_send_tx, lines 151 and 167: nonce + 1
NextNonce(n) == n + 1

\* try_send_tx, line 174: res["tx_hash"].as_str().unwrap_or("")
TxHash(body) == UnwrapOr(as_str(body.tx_hash), "")

\* try_send_tx, lines 147-153: the field map
BuildTx(n, now) ==
    [from |-> TheWallet.addr, to_ |-> TheContract, amount |-> "0",
     nonce |-> ToString(NextNonce(n)), ou |-> "1", timestamp |-> ToString(now)]

\* variant: the body carries the observed nonce, the signed message the next one
SubmitRequestObserved(ps, n, now, sig) ==
    Request("POST", "call-contract", TheWallet.rpc \o "/call-contract",
            [contract |-> TheContract, method |-> Method.name, params |-> ps,
             caller |-> TheWallet.addr, nonce |-> n, timestamp |-> now,
             signature |-> sig, public_key |-> Base64(VerifyingKey(TheWallet.priv_))])

\* try_send_tx, lines 158-172: the POST to call-contract
SubmitRequest(ps, n, now, sig) ==
    Request("POST", "call-contract", TheWallet.rpc \o "/call-contract",
            [contract |-> TheContract, method |-> Method.name, params |-> ps,
             caller |-> TheWallet.addr, nonce |-> NextNonce(n), timestamp |-> now,
             signature |-> sig, public_key |-> Base64(VerifyingKey(TheWallet.priv_))])

\* main, lines 224 and 238, and call_contract_tx, line 131: the "call" arm
\* enters the retry loop with attempt 1
main_call_start ==
    /\ AtMatch
    /\ Method.method_type = "call"
    /\ attempt' = 1
    /\ pc' = "fetch"
    /\ UNCHANGED <<methods, i, params, nonce, tx, signature, lastErr, inflight, counts,
                   chain, output, delays, clock, canon>>

\* try_send_tx, line 144: get_balance sends its GET
try_send_tx_fetch_send ==
    /\ pc = "fetch"
    /\ Send(BalanceRequest, i, attempt)
    /\ pc' = "fetch_wait"
    /\ UNCHANGED <<methods, i, params, callLocals, lastErr, signedHere, stamps, served, rejected,
                   accepted, stderr, backoffs, chain, output, delays, clock, canon>>

\* variant: a failed balance fetch is taken as nonce 0 and the attempt goes on
try_send_tx_fetch_recv_default ==
    /\ pc = "fetch_wait"
    /\ inflight # <<>>
    /\ \E resp \in BalanceReplies(chainNonce) :
          LET r == get_balance(resp)
          IN  IF r.ok
              THEN /\ nonce' = ObservedNonce(r, nonce)
                   /\ served' = [attempt |-> Head(inflight).attempt, nonce |-> chainNonce]
              ELSE /\ nonce' = 0
                   /\ UNCHANGED served
    /\ pc' = "sign"
    /\ inflight' = Tail(inflight)
    /\ UNCHANGED <<methods, i, params, attempt, tx, signature, lastErr, sentHere, signedHere,
                   stamps, rejected, accepted, stderr, backoffs, chain, output, delays, clock,
                   canon>>

\* variant: a failed balance fetch ends the method at once with the fetch's error
try_send_tx_fetch_recv_fatal ==
    /\ pc = "fetch_wait"
    /\ inflight # <<>>
    /\ \E resp \in BalanceReplies(chainNonce), out \in StdIo, io \in ReportIo :
          LET r == get_balance(resp)
          IN  IF r.ok
              THEN /\ nonce' = ObservedNonce(r, nonce)
                   /\ served' = [attempt |-> Head(inflight).attempt, nonce |-> chainNonce]
                   /\ pc' = "sign"
                   /\ UNCHANGED <<lastErr, output>>
              ELSE /\ PrintAndLog("call_error", "error", r.err, r.err, out, io)
                   /\ UNCHANGED <<nonce, served, res>>
    /\ inflight' = Tail(inflight)
    /\ UNCHANGED <<methods, i, params, attempt, tx, signature, sentHere, signedHere, stamps,
                   rejected, accepted, stderr, backoffs, chain, delays, clock, canon>>

\* try_send_tx, line 144: the answer; an Err leaves try_send_tx through ?
try_send_tx_fetch_recv ==
    /\ pc = "fetch_wait"
    /\ inflight # <<>>
    /\ \E resp \in BalanceReplies(chainNonce) :
          LET r == get_balance(resp)
          IN  IF r.ok
              THEN /\ nonce' = ObservedNonce(r, nonce)
                   /\ served' = [attempt |-> Head(inflight).attempt, nonce |-> chainNonce]
                   /\ pc' = "sign"
                   /\ UNCHANGED lastErr
              ELSE /\ lastErr' = r.err
                   /\ pc' = "attempt_failed"
                   /\ UNCHANGED <<nonce, served>>
    /\ inflight' = Tail(inflight)
    /\ UNCHANGED <<methods, i, params, attempt, tx, signature, sentHere, signedHere, stamps,
                   rejected, accepted, stderr, backoffs, chain, output, delays, clock, canon>>

\* variant: later attempts sign the timestamp the first signing attempt took
try_send_tx_sign_once ==
    /\ pc = "sign"
    /\ LET timestamp == Timestamp(clock)
       IN  IF timestamp.ok
           THEN /\ tx' = [BuildTx(nonce, timestamp.val) EXCEPT
                            !.timestamp = IF stamps = <<>> THEN @ ELSE stamps[1].timestamp]
                /\ signature' = sign_tx(TheWallet.priv_, tx')
                /\ signedHere' = signedHere + 1
                /\ stamps' = Append(stamps, [attempt |-> attempt, timestamp |-> tx'.timestamp])
                /\ pc' = "submit"
                /\ UNCHANGED lastErr
           ELSE /\ lastErr' = timestamp.err
                /\ pc' = "attempt_failed"
                /\ UNCHANGED <<tx, signature, signedHere, stamps>>
    /\ UNCHANGED <<methods, i, params, attempt, nonce, inflight, sentHere,
                   served, rejected, accepted, stderr, backoffs, chain, output, delays,
                   clock, canon>>

\* try_send_tx, lines 145-156: timestamp, field map, signature, public key; with
\* the wall clock before the epoch the ? of line 145 returns the error instead
try_send_tx_sign ==
    /\ pc = "sign"
    /\ LET timestamp == Timestamp(clock)
       IN  IF timestamp.ok
           THEN /\ tx' = BuildTx(nonce, timestamp.val)
                /\ signature' = sign_tx(TheWallet.priv_, tx')
                /\ signedHere' = signedHere + 1
                /\ stamps' = Append(stamps, [attempt |-> attempt, timestamp |-> tx'.timestamp])
                /\ pc' = "submit"
                /\ UNCHANGED lastErr
           ELSE /\ lastErr' = timestamp.err
                /\ pc' = "attempt_failed"
                /\ UNCHANGED <<tx, signature, signedHere, stamps>>
    /\ UNCHANGED <<methods, i, params, attempt, nonce, inflight, sentHere,
                   served, rejected, accepted, stderr, backoffs, chain, output, delays,
                   clock, canon>>

\* try_send_tx, lines 158-172: the POST leaves
try_send_tx_submit_send ==
    /\ pc = "submit"
    /\ Send(SubmitRequest(params, nonce, clock, signature), i, attempt)
    /\ pc' = "submit_wait"
    /\ UNCHANGED <<methods, i, params, callLocals, lastErr, signedHere, stamps, served, rejected,
                   accepted, stderr, backoffs, chain, output, delays, clock, canon>>

\* the node receives a submitted transaction and accepts or rejects it
node_submit ==
    /\ inflight # <<>>
    /\ Head(inflight).ep = "call-contract"
    /\ Head(inflight).handled = "no"
    /\ IF NodeAccepts(Head(inflight).body, chainNonce)
       THEN /\ chainNonce' = chainNonce + 1
            /\ accepted' = accepted + 1
            /\ inflight' = <<[Head(inflight) EXCEPT !.handled = "accepted"]>> \o Tail(inflight)
            /\ UNCHANGED rejected
       ELSE /\ rejected' = Head(inflight).attempt
            /\ inflight' = <<[Head(inflight) EXCEPT !.handled = "rejected"]>> \o Tail(inflight)
            /\ UNCHANGED <<chainNonce, accepted>>
    /\ UNCHANGED <<pc, methods, i, params, callLocals, lastErr, sentHere, signedHere, stamps,
                   served, stderr, backoffs, otherMoves, output, delays, clock, canon>>

\* what the client may get back for a submit
SubmitReplies(req) ==
    CASE req.handled = "no" -> {NetFail}
      [] req.handled = "accepted" -> SubmitRepliesAccepted(req.body)
      [] req.handled = "rejected" -> SubmitRepliesRejected

\* variant: the delay between attempts is also taken after a successful attempt
try_send_tx_submit_recv_slow ==
    /\ pc = "submit_wait"
    /\ inflight # <<>>
    /\ \E resp \in SubmitReplies(Head(inflight)), out \in StdIo, io \in ReportIo :
          LET r == api_call("POST", FALSE, resp)
          IN  IF r.ok
              THEN /\ clock' = clock + BackoffSecs
                   /\ backoffs' = backoffs + 1
                   /\ PrintAndLog("tx_hash", "tx_hash", TxHash(r.val), lastErr, out, io)
                   /\ UNCHANGED res
              ELSE /\ lastErr' = r.err
                   /\ pc' = "attempt_failed"
                   /\ UNCHANGED <<output, clock, backoffs>>
    /\ inflight' = Tail(inflight)
    /\ tx' = NoTx
    /\ signature' = ""
    /\ UNCHANGED <<methods, i, params, attempt, nonce, sentHere, signedHere, stamps, served,
                   rejected, accepted, stderr, chain, delays, canon>>

\* try_send_tx, lines 172-174, call_contract_tx, lines 132-134, and main, lines
\* 239-242: the answer; Ok(hash) is returned up to main, an Err fails the attempt.
\* Either way try_send_tx returns and its field map and signature are dropped.
try_send_tx_submit_recv ==
    /\ pc = "submit_wait"
    /\ inflight # <<>>
    /\ \E resp \in SubmitReplies(Head(inflight)), out \in StdIo, io \in ReportIo :
          LET r == api_call("POST", FALSE, resp)
          IN  IF r.ok
              THEN /\ PrintAndLog("tx_hash", "tx_hash", TxHash(r.val), lastErr, out, io)
                   /\ UNCHANGED res
              ELSE /\ lastErr' = r.err
                   /\ pc' = "attempt_failed"
                   /\ UNCHANGED output
    /\ inflight' = Tail(inflight)
    /\ tx' = NoTx
    /\ signature' = ""
    /\ UNCHANGED <<methods, i, params, attempt, nonce, counts, chain, delays, clock, canon>>

\* variant: the failure of the last attempt is not reported
call_contract_tx_report_quiet ==
    /\ pc = "attempt_failed"
    /\ \E out \in StdIo :
          /\ IF MoreAttempts(attempt) THEN Reported(attempt, out) ELSE UNCHANGED stderr
          /\ IF out = "ok"
             THEN /\ lastErr' = ""
                  /\ served' = NoServed
                  /\ pc' = "backoff"
             ELSE /\ Panic(StderrPanic)
                  /\ UNCHANGED served
    /\ UNCHANGED <<methods, i, params, callLocals, inflight, sentHere, signedHere, stamps,
                   rejected, accepted, backoffs, chain, output, delays, clock, canon>>

\* call_contract_tx, lines 134-135: the failed attempt is reported on stderr;
\* eprintln! panics when the line cannot be written, with none, a part or all of
\* the report on stderr
call_contract_tx_report ==
    /\ pc = "attempt_failed"
    /\ \E out \in StdIo :
          /\ Reported(attempt, out)
          /\ IF out = "ok"
             THEN /\ lastErr' = ""
                  /\ served' = NoServed
                  /\ pc' = "backoff"
             ELSE /\ Panic(StderrPanic)
                  /\ UNCHANGED served
    /\ UNCHANGED <<methods, i, params, callLocals, inflight, sentHere, signedHere, stamps,
                   rejected, accepted, backoffs, chain, output, delays, clock, canon>>

\* call_contract_tx, lines 136 and 131: the 2 s sleep, then the loop's next step
call_contract_tx_backoff ==
    /\ pc = "backoff"
    /\ clock' = clock + BackoffSecs
    /\ backoffs' = backoffs + 1
    /\ IF MoreAttempts(attempt)
       THEN attempt' = attempt + 1 /\ pc' = "fetch"
       ELSE attempt' = attempt /\ pc' = "exhausted"
    /\ UNCHANGED <<methods, i, params, nonce, tx, signature, lastErr, inflight, sentHere,
                   signedHere, stamps, served, rejected, accepted, stderr, chain, output, delays,
                   canon>>

\* call_contract_tx, line 140, and main, lines 243-246: all retries failed
call_contract_tx_exhausted ==
    /\ pc = "exhausted"
    /\ \E out \in StdIo, io \in ReportIo :
          PrintAndLog("call_error", "error", "All retries failed", "All retries failed",
                      out, io)
    /\ UNCHANGED <<res, methods, i, params, callLocals, inflight, counts, chain, delays,
                   clock, canon>>

(* ----------------------------- environment ---------------------------- *)
\* another actor's transaction from the same account is accepted by the chain
\* (taken while an attempt is under way: at any other time it only shifts the nonce
\* the next attempt starts from)
OtherActor ==
    /\ pc \in {"fetch_wait", "sign", "submit", "submit_wait"}
    /\ otherMoves < MaxOther
    /\ otherMoves' = otherMoves + 1
    /\ chainNonce' = chainNonce + 1
    /\ UNCHANGED <<pc, methods, i, params, callLocals, lastErr, inflight, counts, output,
                   delays, clock, canon>>

Next ==
    \/ main_load_wallet
    \/ main_load_interface
    \/ main_decode_key
    \/ main_build_client
    \/ main_balance_send
    \/ main_balance_recv
    \/ main_loop_exit
    \/ main_generate
    \/ main_generate_panic
    \/ main_view_send
    \/ main_view_recv
    \/ main_unknown
    \/ main_sleep
    \/ main_call_start
    \/ try_send_tx_fetch_send
    \/ try_send_tx_fetch_recv
    \/ try_send_tx_sign
    \/ try_send_tx_submit_send
    \/ node_submit
    \/ try_send_tx_submit_recv
    \/ call_contract_tx_report
    \/ call_contract_tx_backoff
    \/ call_contract_tx_exhausted
    \/ OtherActor

Spec == Init /\ [][Next]_vars

(* ------------------------- sign_tx taken alone ------------------------ *)
\* the six entries of the field map, in the order of the format string
FieldNames == <<"from", "to_", "amount", "nonce", "ou", "timestamp">>
\* field maps to build messages from: two values for every entry
TxMaps ==
    [from : {"octA", "octB"}, to_ : {"octC", "octD"}, amount : {"0", "5"},
     nonce : {"1", "11"}, ou : {"1", "2"}, timestamp : {"1", "11"}]

InitCanon ==
    /\ pc = "sign_tx"
    /\ canon \in [a : TxMaps, b : TxMaps, msg_a : {""}, msg_b : {""}]
    /\ methods = <<>>
    /\ i = 1
    /\ params = <<>>
    /\ attempt = 0
    /\ nonce = 0
    /\ tx = NoTx
    /\ signature = ""
    /\ lastErr = ""
    /\ res = NoResp
    /\ shown = ""
    /\ inflight = <<>>
    /\ sentHere = NoReqs
    /\ signedHere = 0
    /\ stamps = <<>>
    /\ served = NoServed
    /\ chainNonce = 0
    /\ otherMoves = 0
    /\ rejected = 0
    /\ accepted = 0
    /\ outcomes = <<>>
    /\ stderr = <<>>
    /\ logfile = <<>>
    /\ delays = 0
    /\ backoffs = 0
    /\ clock = 0

\* sign_tx, lines 96-99: the message is built from each of the two field maps
sign_tx_blob ==
    /\ pc = "sign_tx"
    /\ canon' = [canon EXCEPT !.msg_a = Blob(canon.a), !.msg_b = Blob(canon.b)]
    /\ pc' = "signed"
    /\ UNCHANGED <<methods, i, params, callLocals, lastErr, inflight, counts, chain, output,
                   delays, clock>>

NextCanon == sign_tx_blob

SpecCanon == InitCanon /\ [][NextCanon]_vars

(* ------------------------------ properties ---------------------------- *)
CurKind == IF i \in 1..Len(methods) THEN methods[i].method_type ELSE "none"
LastKind == IF outcomes = <<>> THEN "none" ELSE outcomes[Len(outcomes)].kind
StartupErrors ==
    {"wallet.json missing", "wallet.json malformed", "exec_interface.json missing",
     "exec_interface.json malformed", "key bad_base64", "key wrong_length", "client"}
\* the node is about to take the submit request in flight / has just taken it
NodeTakesSubmit ==
    /\ inflight # <<>>
    /\ inflight' # <<>>
    /\ Head(inflight).ep = "call-contract"
    /\ Head(inflight).handled = "no"
    /\ Head(inflight').handled # "no"

\* the positions inside call_contract_tx
RetryLoop ==
    {"fetch", "fetch_wait", "sign", "submit", "submit_wait", "attempt_failed", "backoff",
     "exhausted"}

\* C1: inside call_contract_tx at most 3 attempts are made, each starting with one
\* balance fetch; the method ends in the error "All retries failed" only after
\* exactly 3 attempts, all of them reported as failed, and once 3 attempts have
\* failed nothing is tried again: there is no 4th attempt. The retry loop never
\* gets stuck: inside it a next step is always possible.
C1_RetryBound ==
    attempt > 0 =>
        /\ attempt <= 3
        /\ sentHere["balance"] <= 3
        /\ sentHere["balance"] \in {attempt - 1, attempt}
        /\ Len(stderr) <= 3
        /\ (pc = "exhausted" \/ (pc = "sleep" /\ LastKind = "call_error"))
              => sentHere["balance"] = 3 /\ Len(stderr) = 3 /\ backoffs = 3
        /\ (pc = "sleep" /\ LastKind = "call_error") => shown = "All retries failed"
        /\ Len(stderr) = 3 => pc \in {"backoff", "exhausted", "sleep", "panicked"}
        /\ pc \in RetryLoop => ENABLED Next

\* every request of the method failed before reaching the node, and it ended in the
\* aggregate error after 3 attempts
C1_Witness ==
    /\ pc = "sleep"
    /\ LastKind = "call_error"
    /\ sentHere["balance"] = 3
    /\ sentHere["call-contract"] = 0
    /\ Len(stderr) = 3

\* C2: whenever call_contract_tx returns success (main prints a TX hash), the hash
\* is a non-empty string; an empty or missing tx_hash counts as a failed attempt.
C2_SuccessHashNonEmpty ==
    (pc = "sleep" /\ LastKind = "tx_hash") => shown # ""

\* C3: every submit request carries the nonce the node served to the balance fetch
\* of that same attempt, plus 1; every attempt that signs or submits has done its
\* own balance fetch (as many fetches as attempts), never reusing an earlier nonce.
C3_NonceDiscipline ==
    /\ pc \in {"sign", "submit", "submit_wait"} =>
          /\ served.attempt = attempt
          /\ nonce = served.nonce
          /\ sentHere["balance"] = attempt
    /\ pc = "submit" => tx.nonce = ToString(served.nonce + 1)
    /\ \A k \in 1..Len(inflight) :
          inflight[k].ep = "call-contract" =>
              /\ inflight[k].attempt = served.attempt
              /\ inflight[k].body.nonce = served.nonce + 1

\* the second attempt has its submit in flight after the first was rejected for
\* its nonce
C3_Witness ==
    /\ pc = "submit_wait"
    /\ attempt = 2
    /\ rejected = 1
    /\ inflight # <<>>
    /\ Head(inflight).body.nonce >= 2

\* C4: when the previous attempt's submit was rejected for its nonce, and the node
\* takes the submit of the next attempt while the account nonce is still the one
\* this attempt's balance fetch was served, the submit carries the account nonce
\* + 1 and the chain accepts it.
C4_ConflictHealed ==
    [][ ( /\ NodeTakesSubmit
          /\ attempt >= 2
          /\ rejected = attempt - 1
          /\ served.attempt = attempt
          /\ served.nonce = chainNonce )
        => ( /\ Head(inflight).body.nonce = chainNonce + 1
             /\ Head(inflight').handled = "accepted"
             /\ accepted' = accepted + 1
             /\ chainNonce' = chainNonce + 1 ) ]_vars

\* an attempt after a rejected one has been accepted
C4_Witness ==
    /\ pc = "submit_wait"
    /\ attempt >= 2
    /\ rejected = attempt - 1
    /\ accepted = 1
    /\ inflight # <<>>
    /\ Head(inflight).handled = "accepted"

\* C5: once the view arm is taken, exactly one request has been issued for the
\* method, the POST to call-view: no balance fetch, no signature, no submit, no
\* attempt counting, no report, no backoff, whatever the answer; a failure is the
\* method's error at once.
C5_ViewSingleRequest ==
    (CurKind = "view" /\ pc \in {"view_wait", "sleep"}) =>
        /\ sentHere = [NoReqs EXCEPT !["call-view"] = 1]
        /\ signedHere = 0
        /\ attempt = 0
        /\ stderr = <<>>
        /\ backoffs = 0
        /\ Len(inflight) = (IF pc = "view_wait" THEN 1 ELSE 0)
        /\ \A k \in 1..Len(inflight) : inflight[k].ep = "call-view"
        /\ pc = "sleep" =>
              /\ (res.transport = "fail" \/ res.status >= 400 \/ ~res.json)
                    => LastKind = "view_error"
              /\ lastErr # "" => (LastKind = "view_error" /\ shown = lastErr)

\* a view call answered with an HTTP error has ended as the method's error
C5_Witness ==
    /\ CurKind = "view"
    /\ pc = "sleep"
    /\ res = HttpError
    /\ LastKind = "view_error"
    /\ sentHere["call-view"] = 1

\* C6: once the method loop is entered the run never stops before its end, and at
\* the end every declared method has been dispatched. (Here even a run stopped
\* because stdout, stderr or the report cannot be written is let through: what is
\* left is a run stopped by a declared method itself.)
C6_RunCompletes ==
    /\ pc = "panicked" =>
          lastErr \in {"key wrong_length", StdoutPanic, StderrPanic, "log_to_file"}
    /\ pc = "done" => Len(outcomes) = Len(methods)

\* C7: at most one request is in flight; the outcomes are those of methods 1, 2, ...
\* in this order, one each; a request of method i is in flight only when the i-1
\* methods before it have their outcome and i-1 inter-method delays have elapsed;
\* a run that completes has one outcome and one delay per declared method.
C7_Sequential ==
    /\ Len(inflight) <= 1
    /\ Len(outcomes) <= Len(methods)
    /\ \A k \in 1..Len(outcomes) : outcomes[k].m = k
    /\ \A k \in 1..Len(inflight) :
          inflight[k].m > 0 =>
              /\ inflight[k].m = i
              /\ Len(outcomes) = i - 1
              /\ delays = i - 1
    /\ pc = "done" => (Len(outcomes) = Len(methods) /\ delays = Len(methods))

\* a request of the second method is in flight
C7_Witness ==
    /\ i = 2
    /\ inflight # <<>>
    /\ Head(inflight).m = 2
    /\ Len(outcomes) = 1

\* C8: when main's match meets a kind that is neither view nor call, its step
\* reports the method as unknown and goes to the inter-method delay: no request is
\* sent, nothing is signed, the retry loop is not entered; and the delay after it
\* leads to the next method. The run is ended by this step in one case only, with
\* nothing sent or signed either: the report itself cannot be written to stdout,
\* and then none, a part or all of it is on stdout when the process panics.
C8_UnknownSkipped ==
    [][ /\ (AtMatch /\ Method.method_type \notin {"view", "call"}) =>
              /\ i' = i
              /\ inflight = <<>> /\ inflight' = <<>>
              /\ sentHere' = NoReqs
              /\ signedHere' = 0
              /\ attempt' = 0
              /\ stderr' = <<>> /\ backoffs' = 0
              /\ \/ /\ pc' = "sleep"
                    /\ lastErr' = ""
                    /\ outcomes' = Append(outcomes, [m |-> i, kind |-> "unknown"])
                 \/ /\ pc' = "panicked"
                    /\ lastErr' = StdoutPanic
                    /\ \/ outcomes' = outcomes
                       \/ outcomes' = Append(outcomes, [m |-> i, kind |-> Fragment])
                       \/ outcomes' = Append(outcomes, [m |-> i, kind |-> "unknown"])
                    /\ UNCHANGED <<logfile, delays>>
        /\ (pc = "sleep" /\ LastKind = "unknown") =>
              /\ pc' = "loop"
              /\ i' = i + 1
              /\ delays' = delays + 1
              /\ outcomes' = outcomes ]_vars

\* the method after an unknown one is at its match
C8_Witness ==
    /\ pc = "match"
    /\ i = 2
    /\ outcomes[1].kind = "unknown"

\* C9: as long as startup has not got past the key and the client, and in every
\* run ended by a startup error, no request has been sent.
C9_StartupBeforeNetwork ==
    /\ pc \in {"load_wallet", "load_interface", "decode_key", "build_client"}
          => (sentHere = NoReqs /\ inflight = <<>>)
    /\ (pc \in {"aborted", "panicked"} /\ lastErr \in StartupErrors)
          => (sentHere = NoReqs /\ inflight = <<>> /\ outcomes = <<>>)

\* the run ended on a key of the wrong length
C9_Witness ==
    /\ pc = "panicked"
    /\ lastErr = "key wrong_length"

\* C10: a view answer with status "success" and a result gives the result's textual
\* form, whatever its JSON type; "null" is given only for an absent (or null)
\* result; any other status gives an error.
C10_ResultCoerced ==
    (CurKind = "view" /\ pc = "sleep" /\ res.transport = "ok" /\ res.status < 400 /\ res.json) =>
        /\ (JsonEqStr(res.body.status, "success") /\ res.body.result.t # "absent")
              => (LastKind = "result" /\ shown = res.body.result.v)
        /\ (LastKind = "result" /\ shown = "null")
              => res.body.result.t \in {"absent", "null"}
        /\ ~JsonEqStr(res.body.status, "success") => LastKind = "view_error"

\* C11: when call-view answers 200 with a JSON object whose status is "success" and
\* which has no result field, the view call succeeds: once main has printed the
\* outcome, the method has ended as a result (not as an error) and the text printed,
\* and logged when the report can be written, is the literal null.
C11_AbsentResultIsNull ==
    ( /\ CurKind = "view"
      /\ \/ pc = "sleep"
         \/ pc = "panicked" /\ lastErr = "log_to_file"
         \/ pc = "panicked" /\ lastErr = StdoutPanic /\ Len(outcomes) = i
                             /\ LastKind # Fragment
      /\ res.transport = "ok" /\ res.status < 400 /\ res.json
      /\ JsonEqStr(res.body.status, "success")
      /\ res.body.result.t = "absent" )
    => ( /\ LastKind = "result"
         /\ shown = "null"
         /\ pc = "sleep" =>
               /\ lastErr = ""
               /\ logfile[Len(logfile)] = [label |-> Method.label, kind |-> "result"] )

\* a view call was answered with success and no result field
C11_Witness ==
    /\ CurKind = "view"
    /\ pc = "sleep"
    /\ res = Reply([EmptyBody EXCEPT !.status = JStr("success")])
    /\ shown = "null"

\* the entries in which two field maps differ
Differing(a, b) == {k \in 1..Len(FieldNames) : a[FieldNames[k]] # b[FieldNames[k]]}

\* C12: the message sign_tx signs is a function of the six entries from, to_,
\* amount, nonce, ou, timestamp, laid out in this order: equal field maps give
\* equal messages, and two field maps that differ in exactly one entry give
\* different messages.
C12_MessageOfSixFields ==
    pc = "signed" =>
        /\ canon.a = canon.b => canon.msg_a = canon.msg_b
        /\ Cardinality(Differing(canon.a, canon.b)) = 1 => canon.msg_a # canon.msg_b
        /\ canon.a = [from |-> "octA", to_ |-> "octC", amount |-> "0", nonce |-> "11",
                      ou |-> "1", timestamp |-> "1"]
              => canon.msg_a = "{\"from\":\"octA\",\"to_\":\"octC\",\"amount\":\"0\","
                               \o "\"nonce\":11,\"ou\":\"1\",\"timestamp\":1}"

\* the messages of two field maps that differ in the ou entry only
C12_Witness ==
    /\ pc = "signed"
    /\ Differing(canon.a, canon.b) = {5}
    /\ canon.msg_a # canon.msg_b

\* the errors try_send_tx returns: of get_balance (line 144), of the clock (line 145)
\* and of api_call (line 172)
TrySendErrors ==
    {"network", "api error", "decode", "parse", "second time provided was later than self"}

\* an attempt of the retry loop fails in this step: its balance fetch, its reading
\* of the clock or its submit ends in an error
AttemptFails ==
    /\ attempt > 0
    /\ pc \in {"fetch_wait", "sign", "submit_wait"}
    /\ lastErr' \in TrySendErrors

\* C13: a failure inside an attempt (of the balance fetch or of the submit: transport
\* error, HTTP status >= 400, undecodable answer; or of the clock reading) is not
\* the method's outcome: the
\* attempt is marked failed and nothing is printed or logged as outcome; after
\* failed attempt 1 or 2 the report and the delay lead to the next attempt, which
\* starts with its own balance fetch; the error outcome is produced only after
\* three failed attempts. A failed attempt is followed by anything else in one
\* case only: its report cannot be written to stderr and the process panics, still
\* without an outcome.
C13_FailuresCaught ==
    [][ /\ AttemptFails =>
              /\ pc' = "attempt_failed"
              /\ attempt' = attempt
              /\ UNCHANGED <<outcomes, logfile, shown>>
        /\ pc = "attempt_failed" =>
              /\ pc' = "backoff" \/ (pc' = "panicked" /\ lastErr' = StderrPanic)
              /\ UNCHANGED <<attempt, outcomes, logfile, shown>>
        /\ (pc = "backoff" /\ attempt \in {1, 2}) =>
              /\ pc' = "fetch"
              /\ attempt' = attempt + 1
              /\ UNCHANGED <<outcomes, logfile, shown>>
        /\ (pc = "fetch" /\ attempt > 1) =>
              /\ pc' = "fetch_wait"
              /\ Len(inflight') = 1
              /\ Head(inflight').ep = "balance"
              /\ Head(inflight').attempt = attempt
        /\ (attempt > 0 /\ outcomes' # outcomes /\ outcomes'[Len(outcomes')].kind = "call_error") =>
              /\ attempt = 3
              /\ Len(stderr) = 3
              /\ stderr[3].attempt = 3 ]_vars

\* the third attempt is about to fetch the nonce after a failed fetch and a failed
\* submit, and the method has no outcome yet
C13_Witness ==
    /\ pc = "fetch"
    /\ attempt = 3
    /\ Len(stderr) = 2
    /\ sentHere["call-contract"] = 1
    /\ Len(outcomes) = i - 1

\* the attempt that signed last for the current method, 0 if none has
LastSigned == IF stamps = <<>> THEN 0 ELSE stamps[Len(stamps)].attempt

\* C14: within an attempt the order is fetch, sign, submit: an attempt signs only
\* after its own balance fetch has succeeded, and at most once; a submit request is
\* sent only by an attempt that has signed, and carries that signature; an attempt
\* whose balance fetch failed has neither signed nor submitted, and an attempt that
\* failed before signing has not submitted.
C14_AttemptOrder ==
    attempt > 0 =>
        /\ signedHere <= sentHere["balance"]
        /\ sentHere["call-contract"] <= signedHere
        /\ Len(stamps) = signedHere
        /\ \A k \in 1..Len(stamps) :
              /\ stamps[k].attempt <= attempt
              /\ k > 1 => stamps[k - 1].attempt < stamps[k].attempt
        /\ pc \in {"fetch", "fetch_wait"} =>
              /\ LastSigned < attempt
              /\ sentHere["call-contract"] = signedHere
        /\ pc = "sign" =>
              /\ served.attempt = attempt
              /\ LastSigned < attempt
              /\ sentHere["call-contract"] = signedHere
        /\ pc = "submit" =>
              /\ served.attempt = attempt
              /\ LastSigned = attempt
              /\ signature = sign_tx(TheWallet.priv_, tx)
              /\ sentHere["call-contract"] = signedHere - 1
        /\ \A k \in 1..Len(inflight) :
              inflight[k].ep = "call-contract" =>
                  /\ pc = "submit_wait"
                  /\ inflight[k].attempt = attempt
                  /\ served.attempt = attempt
                  /\ LastSigned = attempt
                  /\ inflight[k].body.signature = signature
                  /\ signature = sign_tx(TheWallet.priv_, tx)
                  /\ sentHere["call-contract"] = signedHere
        /\ (pc = "attempt_failed" /\ served.attempt # attempt) =>
              /\ LastSigned < attempt
              /\ sentHere["call-contract"] = signedHere
              /\ tx = NoTx /\ signature = ""
        /\ (pc = "attempt_failed" /\ LastSigned < attempt) =>
              /\ sentHere["call-contract"] = signedHere
              /\ lastErr \notin {"network", "api error", "decode", "parse"}
                    => served.attempt = attempt

\* the first attempt failed at its balance fetch and the second has its submit in
\* flight: one signature, made by the second attempt, for two fetches
C14_Witness ==
    /\ pc = "submit_wait"
    /\ attempt = 2
    /\ sentHere["balance"] = 2
    /\ Len(stamps) = 1
    /\ LastSigned = 2
    /\ inflight # <<>>

\* the field map whose signature a submit body must carry
SignedFor(body) ==
    [from |-> body.caller, to_ |-> body.contract, amount |-> "0",
     nonce |-> ToString(body.nonce), ou |-> "1", timestamp |-> ToString(body.timestamp)]

\* C15: nothing signed is carried from one attempt to the next. Outside the span
\* from signing to the submit's answer no field map and no signature is held, and
\* every signature made so far has been sent; a signature is handed to a submit
\* request by the next step of the attempt that made it; a submit request of
\* attempt k carries the nonce served to attempt k (plus 1), the timestamp attempt
\* k took, which no earlier attempt took, and the signature over these.
C15_NothingCarriedOver ==
    [][ attempt > 0 =>
          /\ pc \in {"fetch", "fetch_wait", "sign", "attempt_failed", "backoff", "exhausted"} =>
                /\ tx = NoTx
                /\ signature = ""
                /\ sentHere["call-contract"] = Len(stamps)
          /\ pc = "submit" =>
                /\ LastSigned = attempt
                /\ stamps[Len(stamps)].timestamp = ToString(clock)
                /\ pc' # pc =>
                      /\ pc' = "submit_wait"
                      /\ Len(inflight') = 1
                      /\ Head(inflight').ep = "call-contract"
                      /\ Head(inflight').attempt = attempt
                      /\ Head(inflight').body.signature = signature
          /\ \A k \in 1..Len(inflight) :
                inflight[k].ep = "call-contract" =>
                    LET body == inflight[k].body
                    IN  /\ inflight[k].attempt = attempt
                        /\ LastSigned = attempt
                        /\ served.attempt = attempt
                        /\ body.nonce = served.nonce + 1
                        /\ ToString(body.timestamp) = stamps[Len(stamps)].timestamp
                        /\ body.signature = sign_tx(TheWallet.priv_, SignedFor(body))
                        /\ \A j \in 1..(Len(stamps) - 1) :
                              /\ stamps[j].attempt < attempt
                              /\ stamps[j].timestamp # ToString(body.timestamp) ]_vars

\* the third attempt has its submit in flight after two attempts that signed,
\* submitted and failed
C15_Witness ==
    /\ pc = "submit_wait"
    /\ attempt = 3
    /\ Len(stamps) = 3
    /\ inflight # <<>>
    /\ Head(inflight).ep = "call-contract"
    /\ stamps[1].timestamp # stamps[3].timestamp

\* C16: every failed attempt k is reported on stderr as attempt k of 3 before
\* anything else happens, and the 2 s delay follows the report; a request of
\* attempt k is sent or in flight only when attempts 1..k-1 have each been reported
\* and k-1 delays have elapsed; when the method ends in the aggregate error all 3
\* failures have been reported. When the report cannot be written to stderr the
\* process panics in that step, with none, a part or all of this report on stderr
\* after the whole reports of the attempts before: no delay, no further attempt, no
\* request follows.
C16_FailuresReported ==
    [][ attempt > 0 =>
          /\ \A k \in 1..Len(stderr) :
                \/ stderr[k] = [attempt |-> k, of |-> 3, whole |-> TRUE]
                \/ /\ stderr[k] = [attempt |-> k, of |-> 3, whole |-> FALSE]
                   /\ k = Len(stderr) /\ k = attempt
                   /\ pc = "panicked" /\ lastErr = StderrPanic
          /\ pc \in {"fetch", "fetch_wait", "sign", "submit", "submit_wait", "attempt_failed"} =>
                /\ Len(stderr) = attempt - 1
                /\ backoffs = attempt - 1
          /\ \A k \in 1..Len(inflight) :
                /\ inflight[k].attempt = attempt
                /\ Len(stderr) = inflight[k].attempt - 1
                /\ backoffs = inflight[k].attempt - 1
          /\ pc = "attempt_failed" =>
                /\ \/ /\ pc' = "backoff"
                      /\ stderr' = Append(stderr, [attempt |-> attempt, of |-> 3, whole |-> TRUE])
                   \/ /\ pc' = "panicked"
                      /\ lastErr' = StderrPanic
                      /\ \/ stderr' = stderr
                         \/ stderr' = Append(stderr, [attempt |-> attempt, of |-> 3,
                                                      whole |-> FALSE])
                         \/ stderr' = Append(stderr, [attempt |-> attempt, of |-> 3,
                                                      whole |-> TRUE])
                /\ UNCHANGED <<attempt, inflight, sentHere, clock, backoffs>>
          /\ (pc = "panicked" /\ lastErr = StderrPanic) =>
                /\ inflight = <<>>
                /\ Len(outcomes) = i - 1
          /\ pc = "backoff" =>
                /\ stderr[Len(stderr)].attempt = attempt
                /\ backoffs = attempt - 1
                /\ inflight = <<>>
                /\ clock' = clock + 2
                /\ backoffs' = backoffs + 1
                /\ UNCHANGED <<inflight, sentHere, stderr>>
          /\ (pc = "exhausted" \/ (pc = "sleep" /\ LastKind = "call_error")) =>
                /\ Len(stderr) = 3
                /\ backoffs = 3 ]_vars

\* the balance request of attempt 2 is in flight, after one report and one delay
C16_Witness ==
    /\ pc = "fetch_wait"
    /\ attempt = 2
    /\ stderr = <<[attempt |-> 1, of |-> 3, whole |-> TRUE]>>
    /\ backoffs = 1
    /\ inflight # <<>>
    /\ Head(inflight).attempt = 2

\* C17: the retry loop stops at the first successful attempt. The step that takes
\* a successful answer to a submit ends the method with the hash of that answer:
\* no report, no delay between attempts, no further request or signature; from
\* then on the only step is the delay before the next method. A method has one
\* outcome, a hash or the aggregate error, never both. (When main cannot print
\* the hash to stdout it panics with none, a part or all of the hash line on
\* stdout; the retry loop has stopped all the same.)
C17_StopsAtSuccess ==
    [][ /\ (pc = "submit_wait" /\ pc' \in {"sleep", "panicked"}) =>
              /\ \/ /\ outcomes' = Append(outcomes, [m |-> i, kind |-> "tx_hash"])
                    /\ Head(inflight).handled = "accepted"
                          => shown' = TxHashOf(Head(inflight).body)
                 \/ /\ pc' = "panicked"
                    /\ lastErr' = StdoutPanic
                    /\ \/ outcomes' = outcomes
                       \/ outcomes' = Append(outcomes, [m |-> i, kind |-> Fragment])
              /\ lastErr' = StdoutPanic => (pc' = "panicked" /\ logfile' = logfile)
              /\ pc' = "sleep" => lastErr' = ""
              /\ Head(inflight).attempt = attempt
              /\ inflight' = <<>>
              /\ UNCHANGED <<attempt, stderr, backoffs, clock, sentHere, signedHere>>
        /\ (pc = "sleep" /\ CurKind = "call") =>
              /\ Len(outcomes) = i
              /\ LastKind \in {"tx_hash", "call_error"}
              /\ LastKind = "tx_hash" =>
                    /\ Len(stderr) = attempt - 1
                    /\ backoffs = attempt - 1
                    /\ sentHere["balance"] = attempt
                    /\ sentHere["call-contract"] = signedHere
                    /\ shown # "All retries failed"
              /\ inflight = <<>>
              /\ pc' = "loop"
              /\ i' = i + 1
              /\ UNCHANGED <<inflight, outcomes, logfile>> ]_vars

\* the second attempt succeeded after the first had failed: one report, one delay,
\* and the hash the node gave
C17_Witness ==
    /\ pc = "sleep"
    /\ LastKind = "tx_hash"
    /\ attempt = 2
    /\ backoffs = 1
    /\ accepted = 1
    /\ shown # ""

\* C18: the chain accepts at most one transaction for one dispatch of a call
\* method, whatever fails on the network, also when a submit is accepted and its
\* answer is lost or cannot be decoded.
C18_AtMostOnce ==
    accepted <= 1

\* C19: for every submit request, the field map that was signed and the POST body
\* agree: the signed nonce is the decimal text of the body's nonce, and both are
\* the nonce this attempt observed plus 1; the signed from is the body's caller,
\* the signed to_ is the body's contract; the signed amount is "0" and the signed
\* ou is "1"; the body's signature is the one made over this field map.
C19_SignedMatchesBody ==
    /\ pc \in {"submit", "submit_wait"} =>
          /\ tx.amount = "0"
          /\ tx.ou = "1"
          /\ tx.nonce = ToString(nonce + 1)
          /\ signature = Base64(Ed25519Sign(TheWallet.priv_, Blob(tx)))
    /\ \A k \in 1..Len(inflight) :
          inflight[k].ep = "call-contract" =>
              LET body == inflight[k].body
              IN  /\ tx.nonce = ToString(body.nonce)
                  /\ body.nonce = nonce + 1
                  /\ served.attempt = attempt /\ nonce = served.nonce
                  /\ tx.from = body.caller /\ body.caller = TheWallet.addr
                  /\ tx.to_ = body.contract /\ body.contract = TheContract
                  /\ tx.amount = "0"
                  /\ tx.ou = "1"
                  /\ body.signature = signature

\* a submit with nonce 3 is in flight, the account nonce having been moved to 2
\* by other actors before this attempt's fetch
C19_Witness ==
    /\ pc = "submit_wait"
    /\ inflight # <<>>
    /\ Head(inflight).body.nonce = 3
    /\ tx.nonce = "3"
    /\ nonce = 2

\* C20: the balance fetch before the method loop is one request; when it fails
\* (transport error, HTTP status >= 400, undecodable body, unparsable balance) the
\* run ends there with that error: the fetch is not sent again, no method has been
\* or will be dispatched, no call-view or call-contract request is sent, and no
\* further step is taken. (A fetch that succeeded leads to the method loop, unless
\* the balance cannot be printed to stdout.)
C20_InitialFetchFatal ==
    [][ /\ pc = "balance_wait" =>
              /\ sentHere = [NoReqs EXCEPT !["balance"] = 1]
              /\ Len(inflight) = 1
              /\ outcomes = <<>>
              /\ i = 1
        /\ pc = "balance_wait" =>
              \/ pc' = "balance_wait"
              \/ pc' = "loop" /\ lastErr' = ""
              \/ pc' = "panicked" /\ lastErr' = StdoutPanic
              \/ pc' = "aborted" /\ lastErr' \in {"network", "api error", "decode", "parse"}
        /\ (pc = "balance_wait" /\ lastErr' \in {"network", "api error", "decode", "parse"}) =>
              /\ pc' = "aborted"
              /\ inflight' = <<>>
              /\ sentHere' = [NoReqs EXCEPT !["balance"] = 1]
              /\ outcomes' = <<>> /\ logfile' = <<>>
              /\ i' = 1 /\ params' = <<>> /\ attempt' = 0
        /\ pc # "aborted" ]_vars

\* the run ended on an HTTP error to the initial balance fetch, with methods declared
C20_Witness ==
    /\ pc = "aborted"
    /\ lastErr = "api error"
    /\ methods # <<>>
    /\ sentHere = [NoReqs EXCEPT !["balance"] = 1]
    /\ outcomes = <<>>
====
